---- MODULE Spec2Model ----
(***************************************************************************)
(* A model of prodigy_lig.py: the ProdigyLig session (constructor,         *)
(* predict), the chain-specification parser, the two contact strategies,   *)
(* the contact classifier and the three scoring functions.                 *)
(*                                                                         *)
(* Representation.                                                         *)
(*  - A Python string is a sequence of characters; a character is a        *)
(*    one-character TLA+ string ("A", ",", "\t").  NonAscii stands for one *)
(*    byte >= 0x80.                                                        *)
(*  - An optional value is None (the empty tuple) or Some(v) (a 1-tuple).  *)
(*  - A call that may raise yields [raised |-> <exception or "none">, ...].*)
(*  - Coordinates and the cutoff are integers on one common grid; a        *)
(*    Euclidean distance sqrt(n) is carried exactly, as its radicand n.    *)
(*  - Scores are exact decimals carried as integers in units of 10^-7;     *)
(*    the electrostatics energy is an integer.                             *)
(***************************************************************************)
EXTENDS Integers, Sequences, FiniteSets, TLC

VARIABLES
    pc,               \* "new": constructor not run; "ready": session exists; "failed": constructor raised
    raw_chains,       \* the constructor's `chains` argument (list of strings)
    structure,        \* self.structure: the coordinate lines PDBIO writes, one record per atom
    chains,           \* self.chains
    electrostatics,   \* self.electrostatics
    cpp_contacts,     \* self.cpp_contacts
    cutoff,           \* self.cutoff
    dg_score,         \* self.dg_score
    dg_elec,          \* self.dg_elec
    dg,               \* self.dg
    contact_counts,   \* self.contact_counts
    atomic_contacts,  \* predict's local atomic_contacts (None before it is assigned)
    err,              \* exception the last call ended with ("none": returned, "idle": no call yet)
    proc              \* the external program's last run as predict saw it

vars == <<pc, raw_chains, structure, chains, electrostatics, cpp_contacts, cutoff,
          dg_score, dg_elec, dg, contact_counts, atomic_contacts, err, proc>>

None == <<>>
Some(v) == <<v>>

\* ------------------------------------------------------------------ bounds

MaxLen == 4
MaxPairLen == 2
MaxAtoms == 2
Grid == 1
MaxCutoff == 1
MaxNameLen == 2
MaxContacts == 2
MaxSessionAtoms == 3
MaxProcLines == 3

\* ----------------------------------------------------------------- strings

NonAscii == "xE9"
uppercase ==
    {"A","B","C","D","E","F","G","H","I","J","K","L","M",
     "N","O","P","Q","R","S","T","U","V","W","X","Y","Z"}
lowercase_seq ==
    <<"a","b","c","d","e","f","g","h","i","j","k","l","m",
      "n","o","p","q","r","s","t","u","v","w","x","y","z">>
uppercase_seq ==
    <<"A","B","C","D","E","F","G","H","I","J","K","L","M",
      "N","O","P","Q","R","S","T","U","V","W","X","Y","Z">>

\* mutant: no upper-casing
upper_missing(s) == s

\* str.upper() on one character, then on a string
upper_char(c) ==
    IF \E i \in 1..26 : lowercase_seq[i] = c
    THEN uppercase_seq[CHOOSE i \in 1..26 : lowercase_seq[i] = c]
    ELSE c
upper(s) == [i \in 1..Len(s) |-> upper_char(s[i])]

\* s.count(c)
count(s, c) == Cardinality({i \in 1..Len(s) : s[i] = c})

\* set(s)
set(s) == {s[i] : i \in 1..Len(s)}

\* s.split(sep) for a one-character separator: empty pieces are kept
RECURSIVE split_acc(_, _, _, _)
split_acc(s, sep, cur, acc) ==
    IF s = <<>> THEN Append(acc, cur)
    ELSE IF Head(s) = sep THEN split_acc(Tail(s), sep, <<>>, Append(acc, cur))
    ELSE split_acc(Tail(s), sep, Append(cur, Head(s)), acc)
split(s, sep) == split_acc(s, sep, <<>>, <<>>)

\* s.startswith(prefix)
startswith(s, prefix) ==
    /\ Len(s) >= Len(prefix)
    /\ \A i \in 1..Len(prefix) : s[i] = prefix[i]

\* ------------------------------------------------- ProdigyLig._parse_chains

\* the comparison of line 113
comma_check_fails(comma_count, chain_count) == comma_count # chain_count - 1

\* validate_chain_string: [raised, value]
validate_chain_string(chain_string0) ==
    LET chain_string == upper(chain_string0)
        comma_count == count(chain_string, ",")
        chain_count == Cardinality(set(chain_string) \cap uppercase)
    IN  IF NonAscii \in set(chain_string)
        THEN [raised |-> "RuntimeError", value |-> <<>>]
        ELSE IF Len(chain_string) = 1
        THEN IF chain_string[1] \notin uppercase
             THEN [raised |-> "RuntimeError", value |-> <<>>]
             ELSE [raised |-> "none", value |-> chain_string]
        ELSE IF \E i \in 1..Len(chain_string) :
                   chain_string[i] \notin uppercase /\ chain_string[i] # ","
        THEN [raised |-> "RuntimeError", value |-> <<>>]
        ELSE IF comma_check_fails(comma_count, chain_count)
        THEN [raised |-> "RuntimeError", value |-> <<>>]
        ELSE [raised |-> "none", value |-> chain_string]

\* the loop of lines 120-127: the first string that does not validate ends the call
RECURSIVE parse_loop(_, _)
parse_loop(rest, parsed_chains) ==
    IF rest = <<>> THEN [raised |-> "none", value |-> parsed_chains]
    ELSE LET v == validate_chain_string(Head(rest))
         IN  IF v.raised # "none"
             THEN [raised |-> v.raised, value |-> <<>>]
             ELSE parse_loop(Tail(rest), Append(parsed_chains, split(v.value, ",")))

_parse_chains(chains_arg) == parse_loop(chains_arg, <<>>)

\* ------------------------------------------------ small list/string helpers

\* x in lst
in_list(x, lst) == \E i \in 1..Len(lst) : lst[i] = x

\* sep.join(parts)
RECURSIVE join(_, _)
join(sep, parts) ==
    IF parts = <<>> THEN <<>>
    ELSE IF Len(parts) = 1 THEN parts[1]
    ELSE parts[1] \o <<sep>> \o join(sep, Tail(parts))

whitespace == {" ", "\t", "\n"}

\* s.split() without argument: runs of whitespace separate, no empty pieces
RECURSIVE words_acc(_, _, _)
words_acc(s, cur, acc) ==
    IF s = <<>> THEN (IF cur = <<>> THEN acc ELSE Append(acc, cur))
    ELSE IF Head(s) \in whitespace
    THEN words_acc(Tail(s), <<>>, IF cur = <<>> THEN acc ELSE Append(acc, cur))
    ELSE words_acc(Tail(s), Append(cur, Head(s)), acc)
split_ws(s) == words_acc(s, <<>>, <<>>)

\* -------------------------------------------- calc_atomic_contacts_python

\* A line of the serialised structure is a record
\*   [record, chain, resid, name, resname, x, y, z]
\* holding the fixed-column fields _process_coord_line reads (already stripped).
_process_coord_line(line) ==
    IF line.record = "ATOM" \/ line.record = "HETATM"
    THEN Some([chain |-> line.chain, resid |-> line.resid, name |-> line.name,
               resname |-> line.resname,
               coords |-> [x |-> line.x, y |-> line.y, z |-> line.z]])
    ELSE None

\* sqrt(n) is carried as n
_calc_dist(coords_1, coords_2) ==
    (coords_1.coords_x - coords_2.coords_x) * (coords_1.coords_x - coords_2.coords_x) +
    (coords_1.coords_y - coords_2.coords_y) * (coords_1.coords_y - coords_2.coords_y) +
    (coords_1.coords_z - coords_2.coords_z) * (coords_1.coords_z - coords_2.coords_z)

\* mutant: the comparison made strict
dist_lt_cutoff(dist_sq, cutoff_arg) == cutoff_arg > 0 /\ dist_sq < cutoff_arg * cutoff_arg

\* `dist <= cutoff` of line 308, for dist = sqrt(dist_sq)
dist_le_cutoff(dist_sq, cutoff_arg) == cutoff_arg >= 0 /\ dist_sq <= cutoff_arg * cutoff_arg

\* str(dist): one token without whitespace
str_dist(dist_sq) == <<"sqrt", ToString(dist_sq)>>

\* "{}_{}_{}_{}".format(resname, resid, name, chain)
full_name(coord_line) ==
    join("_", <<coord_line.resname, coord_line.resid, coord_line.name, <<coord_line.chain>>>>)

\* flattened_chains, lines 268-271
RECURSIVE flatten(_)
flatten(groups) == IF groups = <<>> THEN <<>> ELSE Head(groups) \o flatten(Tail(groups))

\* [chain in group for group in chains].index(True)
chain_index(chain, groups) ==
    CHOOSE i \in 1..Len(groups) :
        /\ in_list(chain, groups[i])
        /\ \A j \in 1..(i - 1) : ~in_list(chain, groups[j])

\* the loop of lines 281-302: [raised, value = <<coordinates[0], coordinates[1]>>]
RECURSIVE fill_coordinates(_, _, _)
fill_coordinates(lines, groups, coordinates) ==
    IF lines = <<>> THEN [raised |-> "none", value |-> coordinates]
    ELSE LET opt == _process_coord_line(Head(lines))
         IN  IF opt = None THEN fill_coordinates(Tail(lines), groups, coordinates)
             ELSE LET coord_line == opt[1]
                      chain == <<coord_line.chain>>
                      atom == [fullname |-> full_name(coord_line),
                               coords_x |-> coord_line.coords.x,
                               coords_y |-> coord_line.coords.y,
                               coords_z |-> coord_line.coords.z]
                  IN  IF ~in_list(chain, flatten(groups))
                      THEN fill_coordinates(Tail(lines), groups, coordinates)
                      ELSE IF chain_index(chain, groups) > 2
                      THEN [raised |-> "IndexError", value |-> coordinates]
                      ELSE fill_coordinates(Tail(lines), groups,
                               [coordinates EXCEPT ![chain_index(chain, groups)] =
                                   Append(@, atom)])

\* the line appended at lines 309-319
contact_line(ref_atom, mob_atom, dist_sq) ==
    LET r == split(ref_atom.fullname, "_")
        m == split(mob_atom.fullname, "_")
    IN  join("\t", <<r[1], r[4], r[2], r[3], m[1], m[4], m[2], m[3], str_dist(dist_sq)>>)

\* the double loop of lines 304-319, in its order
contacts_of(bucket0, bucket1, cutoff_arg) ==
    LET n1 == Len(bucket1)
        pairs == [k \in 1..(Len(bucket0) * n1) |->
                     <<((k - 1) \div n1) + 1, ((k - 1) % n1) + 1>>]
        kept == SelectSeq(pairs,
                    LAMBDA p : dist_le_cutoff(_calc_dist(bucket0[p[1]], bucket1[p[2]]),
                                              cutoff_arg))
    IN  [k \in 1..Len(kept) |->
            contact_line(bucket0[kept[k][1]], bucket1[kept[k][2]],
                         _calc_dist(bucket0[kept[k][1]], bucket1[kept[k][2]]))]

calc_atomic_contacts_python(structure_arg, groups, cutoff_arg) ==
    LET filled == fill_coordinates(structure_arg, groups, <<<<>>, <<>>>>)
    IN  IF filled.raised # "none" THEN [raised |-> filled.raised, value |-> <<>>]
        ELSE [raised |-> "none",
              value |-> contacts_of(filled.value[1], filled.value[2], cutoff_arg)]

\* ------------------------------------------------ calculate_contact_counts

\* mutant: chlorine falls through every branch
_classify_atom_gap(atom) ==
    IF startswith(atom, <<"C">>) /\ ~startswith(atom, <<"C", "L">>) THEN "C"
    ELSE IF startswith(atom, <<"O">>) THEN "O"
    ELSE IF startswith(atom, <<"N">>) THEN "N"
    ELSE IF ~(startswith(atom, <<"C">>) \/ startswith(atom, <<"N">>) \/ startswith(atom, <<"O">>))
    THEN "X"
    ELSE "None"

_classify_atom(atom) ==
    IF startswith(atom, <<"C">>) /\ ~startswith(atom, <<"C", "L">>) THEN "C"
    ELSE IF startswith(atom, <<"O">>) THEN "O"
    ELSE IF startswith(atom, <<"N">>) THEN "N"
    ELSE IF ~(startswith(atom, <<"C">>) \/ startswith(atom, <<"N">>) \/ startswith(atom, <<"O">>))
            \/ startswith(atom, <<"C", "L">>) THEN "X"
    ELSE "None"

\* mutant: the pair is read in one order only
_classify_contact_ordered(atom_1, atom_2) ==
    IF atom_1 = "C" /\ atom_2 = "C" THEN "CC"
    ELSE IF atom_1 = "C" /\ atom_2 = "N" THEN "CN"
    ELSE IF atom_1 = "C" /\ atom_2 = "O" THEN "CO"
    ELSE IF atom_1 = "C" /\ atom_2 = "X" THEN "CX"
    ELSE IF atom_1 = "N" /\ atom_2 = "N" THEN "NN"
    ELSE IF atom_1 = "N" /\ atom_2 = "O" THEN "NO"
    ELSE IF atom_1 = "N" /\ atom_2 = "X" THEN "NX"
    ELSE IF atom_1 = "O" /\ atom_2 = "O" THEN "OO"
    ELSE IF atom_1 = "O" /\ atom_2 = "X" THEN "OX"
    ELSE IF atom_1 = "X" /\ atom_2 = "X" THEN "XX"
    ELSE "None"

_classify_contact(atom_1, atom_2) ==
    IF atom_1 = "C" /\ atom_2 = "C" THEN "CC"
    ELSE IF (atom_1 = "C" /\ atom_2 = "N") \/ (atom_1 = "N" /\ atom_2 = "C") THEN "CN"
    ELSE IF (atom_1 = "C" /\ atom_2 = "O") \/ (atom_1 = "O" /\ atom_2 = "C") THEN "CO"
    ELSE IF (atom_1 = "C" /\ atom_2 = "X") \/ (atom_1 = "X" /\ atom_2 = "C") THEN "CX"
    ELSE IF (atom_1 = "N" /\ atom_2 = "N") \/ (atom_1 = "N" /\ atom_2 = "N") THEN "NN"
    ELSE IF (atom_1 = "N" /\ atom_2 = "O") \/ (atom_1 = "O" /\ atom_2 = "N") THEN "NO"
    ELSE IF (atom_1 = "N" /\ atom_2 = "X") \/ (atom_1 = "X" /\ atom_2 = "N") THEN "NX"
    ELSE IF (atom_1 = "O" /\ atom_2 = "O") \/ (atom_1 = "O" /\ atom_2 = "O") THEN "OO"
    ELSE IF (atom_1 = "O" /\ atom_2 = "X") \/ (atom_1 = "X" /\ atom_2 = "O") THEN "OX"
    ELSE IF (atom_1 = "X" /\ atom_2 = "X") \/ (atom_1 = "X" /\ atom_2 = "X") THEN "XX"
    ELSE "None"

categories == {"CC", "NN", "OO", "XX", "CN", "CO", "CX", "NO", "NX", "OX"}

\* the dict of lines 395-406
zero_counts == [k \in categories |-> 0]

\* the loop of lines 408-420: [raised, value]
RECURSIVE count_loop(_, _)
count_loop(contacts, counts) ==
    IF contacts = <<>> THEN [raised |-> "none", value |-> counts]
    ELSE LET line == Head(contacts)
             words == split_ws(line)
         IN  IF Len(line) = 0 THEN count_loop(Tail(contacts), counts)
             ELSE IF Len(words) < 8 THEN [raised |-> "IndexError", value |-> counts]
             ELSE LET contact_class ==
                          _classify_contact(_classify_atom(words[4]), _classify_atom(words[8]))
                  IN  IF contact_class \notin DOMAIN counts
                      THEN [raised |-> "KeyError", value |-> counts]
                      ELSE count_loop(Tail(contacts),
                                      [counts EXCEPT ![contact_class] = @ + 1])

calculate_contact_counts(contacts) == count_loop(contacts, zero_counts)

\* ----------------------------------------------------------------- scoring
\* Weights and intercepts in units of 10^-7.

calculate_score(counts, electrostatics_energy) ==
    (3437940 * electrostatics_energy) +
    (-375970 * counts["CC"]) +
    (1387380 * counts["NN"]) +
    (1600430 * counts["OO"]) +
    (-30888610 * counts["XX"]) +
    1870113840

\* mutant: the CN weight applied to the CC bucket
calculate_DG_wrong_bucket(counts) ==
    (354707 * counts["NN"]) +
    (-1277895 * counts["XX"]) +
    (-72166 * counts["CC"]) +
    -51923181

calculate_DG(counts) ==
    (354707 * counts["NN"]) +
    (-1277895 * counts["XX"]) +
    (-72166 * counts["CN"]) +
    -51923181

calculate_DG_electrostatics(counts, electrostatics_energy) ==
    (115148 * electrostatics_energy) +
    (-14852 * counts["CC"]) +
    (57097 * counts["NN"]) +
    (-1301806 * counts["XX"]) +
    -51002233

\* ------------------------------------------------ calc_atomic_contacts_cpp

\* _filter_contacts_by_chain, lines 187-206: [raised, value]
RECURSIVE _filter_contacts_by_chain(_, _, _)
_filter_contacts_by_chain(contacts, groups, filtered_contacts) ==
    IF contacts = <<>> THEN [raised |-> "none", value |-> filtered_contacts]
    ELSE LET contact == Head(contacts)
             words == split_ws(contact)
         IN  IF Len(words) < 6 \/ Len(groups) < 2
             THEN [raised |-> "IndexError", value |-> <<>>]
             ELSE LET chain1 == upper(words[2])
                      chain2 == upper(words[6])
                      chains_are_acceptable ==
                          \/ in_list(chain1, groups[1]) /\ in_list(chain2, groups[2])
                          \/ in_list(chain1, groups[2]) /\ in_list(chain2, groups[1])
                  IN  _filter_contacts_by_chain(Tail(contacts), groups,
                          IF chains_are_acceptable
                          THEN Append(filtered_contacts, contact)
                          ELSE filtered_contacts)

\* One run of the external program as the caller sees it:
\*   [spawned, exit, out]: whether Popen started it, its exit status, and the
\* lines it wrote to its standard output.  Lines 214-222 read `out` only.
calc_atomic_contacts_cpp(run, groups) ==
    IF ~run.spawned THEN [raised |-> "OSError", value |-> <<>>]
    ELSE IF run.out = <<>> THEN [raised |-> "IndexError", value |-> <<>>]
    ELSE _filter_contacts_by_chain(SubSeq(run.out, 1, Len(run.out) - 1), groups, <<>>)

\* ------------------------------------------------------- ProdigyLig.predict

\* no external program was called
NoProc == [calls |-> 0, spawned |-> FALSE, exit |-> 0, out |-> <<>>]

\* 10.5, the default of line 28, on a grid of 0.5
default_cutoff == 21

\* x[0] for a list or a string x = [type, val]
index0(x) ==
    IF x.type = "list" THEN [type |-> "str", val |-> x.val[1]]
    ELSE [type |-> "str", val |-> <<x.val[1]>>]

\* mutant: the emptiness test removed
no_contacts_unchecked(contacts) == FALSE

\* line 50
no_contacts(contacts) == Len(contacts) = 0

\* mutant: truthiness instead of `is not None`
electrostatics_truthy(e) == e # None /\ e[1] # 0

\* line 57
electrostatics_present(e) == e # None

\* lines 50-60, given what the contact strategy returned or raised
Finish(r) ==
    IF r.raised # "none"
    THEN /\ err' = r.raised
         /\ atomic_contacts' = None
         /\ UNCHANGED <<contact_counts, dg_score, dg_elec, dg>>
    ELSE /\ atomic_contacts' = Some(r.value)
         /\ IF no_contacts(r.value)
            THEN /\ err' = "RuntimeWarning"
                 /\ UNCHANGED <<contact_counts, dg_score, dg_elec, dg>>
            ELSE LET c == calculate_contact_counts(r.value)
                 IN  IF c.raised # "none"
                     THEN /\ err' = c.raised
                          /\ UNCHANGED <<contact_counts, dg_score, dg_elec, dg>>
                     ELSE /\ err' = "none"
                          /\ contact_counts' = Some(c.value)
                          /\ IF electrostatics_present(electrostatics)
                             THEN /\ dg_score' = Some(calculate_score(c.value, electrostatics[1]))
                                  /\ dg_elec' = Some(calculate_DG_electrostatics(c.value,
                                                                                electrostatics[1]))
                             ELSE UNCHANGED <<dg_score, dg_elec>>
                          /\ dg' = Some(calculate_DG(c.value))

\* what the external program may do on one call
ContactLine(tokens) == join(" ", tokens) \o <<"\n">>
LineAB ==
    ContactLine(<< <<"A", "L", "A">>, <<"A">>, <<"1">>, <<"C", "A">>,
                   <<"L", "I", "G">>, <<"B">>, <<"2">>, <<"N", "1">>, <<"4", ".", "2">> >>)
LineBALower ==
    ContactLine(<< <<"L", "I", "G">>, <<"b">>, <<"2">>, <<"C", "L", "1">>,
                   <<"A", "L", "A">>, <<"a">>, <<"1">>, <<"O", "X", "T">>, <<"3", ".", "0">> >>)
LineAC ==
    ContactLine(<< <<"A", "L", "A">>, <<"A">>, <<"1">>, <<"C", "A">>,
                   <<"H", "O", "H">>, <<"C">>, <<"3">>, <<"O">>, <<"2", ".", "8">> >>)
LineSixTokens ==
    ContactLine(<< <<"A", "L", "A">>, <<"A">>, <<"1">>, <<"C", "A">>,
                   <<"L", "I", "G">>, <<"B">> >>)
LineSummary == ContactLine(<< <<"T", "o", "t", "a", "l">>, <<"2">> >>)
ProcLines == {LineAB, LineBALower, LineAC, LineSixTokens, LineSummary}

\* the one path under which the external program is installed
ExecutablePath == <<"c", "c">>

\* Popen of `exe`: it raises OSError when no such program exists (and may for the
\* installed one); a started program exits with any status after writing any lines
ProcRuns(exe) ==
    {[spawned |-> FALSE, exit |-> 1, out |-> <<>>]}
    \cup IF exe.val # ExecutablePath THEN {}
         ELSE {[spawned |-> TRUE, exit |-> e, out |-> o] :
                  e \in {0, 1}, o \in UNION {[1..k -> ProcLines] : k \in 0..MaxProcLines}}

predict ==
    /\ pc = "ready"
    /\ IF cpp_contacts # None
       THEN IF Len(cpp_contacts[1].val) = 0
            THEN /\ err' = "IndexError"
                 /\ atomic_contacts' = None
                 /\ proc' = NoProc
                 /\ UNCHANGED <<cpp_contacts, contact_counts, dg_score, dg_elec, dg>>
            ELSE \E run \in ProcRuns(index0(cpp_contacts[1])) :
                    /\ cpp_contacts' = Some(index0(cpp_contacts[1]))
                    /\ proc' = [calls |-> 1, spawned |-> run.spawned,
                                exit |-> run.exit, out |-> run.out]
                    /\ Finish(calc_atomic_contacts_cpp(run, chains[1]))
       ELSE /\ UNCHANGED cpp_contacts
            /\ proc' = NoProc
            /\ Finish(calc_atomic_contacts_python(structure, chains[1], cutoff))
    /\ UNCHANGED <<pc, raw_chains, structure, chains, electrostatics, cutoff>>

\* ------------------------------------------------------ ProdigyLig.__init__

\* The constructor stores its arguments (held in the variables of the same names
\* while pc = "new") and clears the four outputs; when _parse_chains raises, no
\* session comes to exist.
Construct ==
    /\ pc = "new"
    /\ LET r == _parse_chains(raw_chains)
       IN  IF r.raised # "none"
           THEN /\ pc' = "failed"
                /\ err' = r.raised
                /\ UNCHANGED <<chains, dg_score, dg_elec, dg, contact_counts>>
           ELSE /\ pc' = "ready"
                /\ err' = "none"
                /\ chains' = Some(r.value)
                /\ dg_score' = None
                /\ dg_elec' = None
                /\ dg' = None
                /\ contact_counts' = None
    /\ UNCHANGED <<raw_chains, structure, electrostatics, cpp_contacts, cutoff,
                   atomic_contacts, proc>>

\* -------------------------------------------- specification: the chain parser

Alphabet == {"A", "B", "a", ",", "1", NonAscii}
StringsUpTo(n) == UNION {[1..k -> Alphabet] : k \in 0..n}

\* the well-formed examples the specification names: "a,b" and "A,B,C"
NamedSpecs == {<<"a", ",", "b">>, <<"A", ",", "B", ",", "C">>}

\* every list of one string of up to n characters, every list of two strings of
\* up to m characters, the named examples, and the empty list
RawInputs(n, m) ==
    {<<>>} \cup {<<s>> : s \in StringsUpTo(n) \cup NamedSpecs}
           \cup {<<s, t>> : s \in StringsUpTo(m), t \in StringsUpTo(m)}

InitParse ==
    /\ pc = "new"
    /\ raw_chains \in RawInputs(MaxLen, MaxPairLen)
    /\ structure = <<>>
    /\ chains = None
    /\ electrostatics = None
    /\ cpp_contacts = None
    /\ cutoff = 0
    /\ dg_score = None
    /\ dg_elec = None
    /\ dg = None
    /\ contact_counts = None
    /\ atomic_contacts = None
    /\ err = "idle"
    /\ proc = NoProc

NextParse == Construct

SpecParse == InitParse /\ [][NextParse]_vars

\* C1: every identifier of every group of an accepted chain specification is
\* exactly one uppercase letter A-Z (so no group has an empty entry).
C1_AcceptedIdentifiersAreSingleLetters ==
    pc = "ready" =>
        \A g \in 1..Len(chains[1]) : \A k \in 1..Len(chains[1][g]) :
            /\ Len(chains[1][g][k]) = 1
            /\ chains[1][g][k][1] \in uppercase

\* the strings the specification names as malformed
BadA_ == <<"A", ",">>
Bad_A == <<",", "A">>
BadA__B == <<"A", ",", ",", "B">>
BadA1 == <<"A", "1">>
BadSpecs == {BadA_, Bad_A, BadA__B, BadA1, <<>>}

\* C2: an accepted list yields one group per input string, in input order, each
\* the comma-separated pieces of the upper-cased string; ["a,b"], ["A"], ["A,B"]
\* yield [["A","B"]], [["A"]], [["A","B"]]; a list holding "A,", ",A", "A,,B",
\* "A1" or "" fails as a whole and yields no groups.
C2_OneGroupPerStringInOrder ==
    /\ pc = "ready" =>
          /\ Len(chains[1]) = Len(raw_chains)
          /\ \A i \in 1..Len(raw_chains) :
                /\ join(",", chains[1][i]) = upper(raw_chains[i])
                /\ Len(chains[1][i]) = count(raw_chains[i], ",") + 1
                /\ \A k \in 1..Len(chains[1][i]) : "," \notin set(chains[1][i][k])
    /\ (pc # "new" /\ raw_chains = <<<<"a", ",", "b">>>>) =>
          (pc = "ready" /\ chains = Some(<<<< <<"A">>, <<"B">> >>>>))
    /\ (pc # "new" /\ raw_chains = <<<<"A">>>>) =>
          (pc = "ready" /\ chains = Some(<<<< <<"A">> >>>>))
    /\ (pc # "new" /\ raw_chains = <<<<"A", ",", "B">>>>) =>
          (pc = "ready" /\ chains = Some(<<<< <<"A">>, <<"B">> >>>>))
    /\ (pc # "new" /\ raw_chains = <<<<"A", ",", "B", ",", "C">>>>) =>
          (pc = "ready" /\ chains = Some(<<<< <<"A">>, <<"B">>, <<"C">> >>>>))
    /\ (pc # "new" /\ \E i \in 1..Len(raw_chains) : raw_chains[i] \in BadSpecs) =>
          (pc = "failed" /\ err = "RuntimeError" /\ chains = None)

\* the lowercase example was accepted and upper-cased
C2_Witness ==
    /\ pc = "ready"
    /\ raw_chains = << <<"a", ",", "b">> >>
    /\ chains = Some(<< << <<"A">>, <<"B">> >> >>)

\* a two-string list with lowercase input was accepted, in order
C2_WitnessPair ==
    /\ pc = "ready"
    /\ raw_chains = << <<"a">>, <<"B">> >>
    /\ chains = Some(<< << <<"A">> >>, << <<"B">> >> >>)

\* a list holding the doubled-comma string was rejected
C2_WitnessRejected ==
    /\ pc = "failed"
    /\ raw_chains = <<BadA__B>>

\* ------------------------------------- specification: in-process detection

\* a call of calc_atomic_contacts_python(self.structure, self.chains, self.cutoff)
CallDetect ==
    /\ pc = "ready"
    /\ err = "idle"
    /\ LET r == calc_atomic_contacts_python(structure, chains[1], cutoff)
       IN  /\ err' = r.raised
           /\ atomic_contacts' = IF r.raised = "none" THEN Some(r.value) ELSE None
    /\ UNCHANGED <<pc, raw_chains, structure, chains, electrostatics, cpp_contacts, cutoff,
                   dg_score, dg_elec, dg, contact_counts, proc>>

ChainIds == {"A", "B", "C"}
Points(g) == {<<x, y, z>> : x \in {0, g}, y \in {0, g}, z \in {0, g}}

\* the i-th coordinate line: residue number i, so that every atom has its own
AtomLine(i, chain, point) ==
    [record |-> "ATOM", chain |-> chain, resid |-> <<ToString(i)>>,
     name |-> <<"C", "A">>, resname |-> <<"A", "L", "A">>,
     x |-> point[1], y |-> point[2], z |-> point[3]]

\* every structure of up to `atoms` atoms with coordinates 0 or g
DetectStructures(atoms, g) ==
    UNION {{[i \in 1..n |-> AtomLine(i, f[i][1], f[i][2])] :
               f \in [1..n -> ChainIds \X Points(g)]} : n \in 0..atoms}

GroupsAB == << << <<"A">> >>, << <<"B">> >> >>

InitDetect ==
    /\ pc = "ready"
    /\ raw_chains = << <<"A">>, <<"B">> >>
    /\ chains = Some(GroupsAB)
    /\ structure \in DetectStructures(MaxAtoms, Grid)
    /\ cutoff \in -1..MaxCutoff
    /\ electrostatics = None
    /\ cpp_contacts = None
    /\ dg_score = None
    /\ dg_elec = None
    /\ dg = None
    /\ contact_counts = None
    /\ atomic_contacts = None
    /\ err = "idle"
    /\ proc = NoProc

NextDetect == CallDetect

SpecDetect == InitDetect /\ [][NextDetect]_vars

\* the two buckets the call filled, and the residue number a bucket atom carries
BucketsNow == fill_coordinates(structure, chains[1], <<<<>>, <<>>>>).value
ResidOf(atom) == split(atom.fullname, "_")[2]
\* how many returned lines name the pair (a, b)
LinesOfPair(a, b) ==
    Cardinality({k \in 1..Len(atomic_contacts[1]) :
                    /\ split_ws(atomic_contacts[1][k])[3] = ResidOf(a)
                    /\ split_ws(atomic_contacts[1][k])[7] = ResidOf(b)})
\* sqrt(dx^2 + dy^2 + dz^2) <= cutoff, over the integers
EuclidWithin(a, b, c) ==
    /\ c >= 0
    /\ (a.coords_x - b.coords_x) * (a.coords_x - b.coords_x)
       + (a.coords_y - b.coords_y) * (a.coords_y - b.coords_y)
       + (a.coords_z - b.coords_z) * (a.coords_z - b.coords_z) <= c * c
EuclidAt(a, b, c) ==
    /\ c >= 0
    /\ (a.coords_x - b.coords_x) * (a.coords_x - b.coords_x)
       + (a.coords_y - b.coords_y) * (a.coords_y - b.coords_y)
       + (a.coords_z - b.coords_z) * (a.coords_z - b.coords_z) = c * c

\* C3: the returned list holds a pair (a of bucket 0, b of bucket 1) exactly once
\* when their Euclidean distance is <= cutoff (equality included) and not at all
\* when it is greater; it holds nothing else.
C3_ContactIffWithinCutoff ==
    (pc = "ready" /\ err = "none" /\ atomic_contacts # None) =>
        LET b0 == BucketsNow[1]
            b1 == BucketsNow[2]
        IN  /\ \A i \in 1..Len(b0) : \A j \in 1..Len(b1) :
                  LinesOfPair(b0[i], b1[j]) =
                      IF EuclidWithin(b0[i], b1[j], cutoff) THEN 1 ELSE 0
            /\ Len(atomic_contacts[1]) =
                  Cardinality({p \in (1..Len(b0)) \X (1..Len(b1)) :
                                  EuclidWithin(b0[p[1]], b1[p[2]], cutoff)})

\* a pair at distance exactly the (positive) cutoff was returned
C3_Witness ==
    /\ pc = "ready" /\ err = "none" /\ atomic_contacts # None
    /\ cutoff > 0
    /\ Len(atomic_contacts[1]) = 1
    /\ Len(BucketsNow[1]) = 1 /\ Len(BucketsNow[2]) = 1
    /\ EuclidAt(BucketsNow[1][1], BucketsNow[2][1], cutoff)

\* ------------------------------------------ specification: the classifier

\* a call of calculate_contact_counts(atomic_contacts)
CallCounts ==
    /\ pc = "ready"
    /\ err = "idle"
    /\ atomic_contacts # None
    /\ LET r == calculate_contact_counts(atomic_contacts[1])
       IN  /\ err' = r.raised
           /\ contact_counts' = IF r.raised = "none" THEN Some(r.value) ELSE None
    /\ UNCHANGED <<pc, raw_chains, structure, chains, electrostatics, cpp_contacts, cutoff,
                   dg_score, dg_elec, dg, atomic_contacts, proc>>

NameAlphabet == {"C", "L", "N", "O", "H"}
AtomNames(n) == UNION {[1..k -> NameAlphabet] : k \in 1..n}
CoreNames == {<<"C", "A">>, <<"C", "L", "1">>, <<"O", "X", "T">>, <<"N", "E", "2">>, <<"H">>}

\* a contact line in the layout of lines 309-319, atom names n1 and n2
CountLine(n1, n2) ==
    join("\t", << <<"A", "L", "A">>, <<"A">>, <<"1">>, n1,
                  <<"L", "I", "G">>, <<"B">>, <<"2">>, n2, str_dist(1) >>)

CoreLines == {<<>>} \cup {CountLine(n1, n2) : n1 \in CoreNames, n2 \in CoreNames}

\* every one-contact list of an atom name of up to n characters with one of
\* CoreNames, in both orders, and every list of up to m lines (empty lines
\* included) over CoreNames
ContactLists(n, m) ==
    {<<CountLine(n1, n2)>> : n1 \in AtomNames(n), n2 \in CoreNames}
    \cup {<<CountLine(n1, n2)>> : n1 \in CoreNames, n2 \in AtomNames(n)}
    \cup UNION {[1..k -> CoreLines] : k \in 0..m}

InitCounts ==
    /\ pc = "ready"
    /\ raw_chains = << <<"A">>, <<"B">> >>
    /\ chains = Some(GroupsAB)
    /\ structure = <<>>
    /\ cutoff = 0
    /\ electrostatics = None
    /\ cpp_contacts = None
    /\ dg_score = None
    /\ dg_elec = None
    /\ dg = None
    /\ contact_counts = None
    /\ atomic_contacts \in {Some(l) : l \in ContactLists(MaxNameLen, MaxContacts)}
    /\ err = "idle"
    /\ proc = NoProc

NextCounts == CallCounts

SpecCounts == InitCounts /\ [][NextCounts]_vars

\* the classification rule as the specification words it, on the atom name alone
ClassByRule(atom_name) ==
    IF atom_name[1] = "C" /\ ~(Len(atom_name) >= 2 /\ atom_name[2] = "L") THEN "C"
    ELSE IF atom_name[1] = "O" THEN "O"
    ELSE IF atom_name[1] = "N" THEN "N"
    ELSE "X"
\* the bucket of an unordered pair of categories
BucketOfPair(pair) ==
    CHOOSE key \in categories :
        \/ pair = {"C"} /\ key = "CC"
        \/ pair = {"N"} /\ key = "NN"
        \/ pair = {"O"} /\ key = "OO"
        \/ pair = {"X"} /\ key = "XX"
        \/ pair = {"C", "N"} /\ key = "CN"
        \/ pair = {"C", "O"} /\ key = "CO"
        \/ pair = {"C", "X"} /\ key = "CX"
        \/ pair = {"N", "O"} /\ key = "NO"
        \/ pair = {"N", "X"} /\ key = "NX"
        \/ pair = {"O", "X"} /\ key = "OX"
Name1(line) == split_ws(line)[4]
Name2(line) == split_ws(line)[8]
\* the same lines with the two atoms of every contact exchanged
SwapAtoms(line) ==
    IF line = <<>> THEN line
    ELSE LET w == split_ws(line)
         IN  join("\t", <<w[5], w[6], w[7], w[8], w[1], w[2], w[3], w[4], w[9]>>)
Swapped(lines) == [k \in 1..Len(lines) |-> SwapAtoms(lines[k])]

\* C4: every contact increments the bucket of the unordered pair of its two atoms'
\* categories, each category decided by the atom name alone; exchanging the two
\* atoms of every contact gives the same histogram.
C4_PairCategoryIsSymmetric ==
    (pc = "ready" /\ err # "idle") =>
        /\ err = "none"
        /\ contact_counts # None
        /\ \A key \in categories :
              contact_counts[1][key] =
                  Cardinality({k \in 1..Len(atomic_contacts[1]) :
                      /\ atomic_contacts[1][k] # <<>>
                      /\ BucketOfPair({ClassByRule(Name1(atomic_contacts[1][k])),
                                       ClassByRule(Name2(atomic_contacts[1][k]))}) = key})
        /\ calculate_contact_counts(Swapped(atomic_contacts[1])).value = contact_counts[1]

\* one contact, a nitrogen first and a carbon second, counted as CN
C4_Witness ==
    /\ pc = "ready" /\ err = "none" /\ contact_counts # None
    /\ Len(atomic_contacts[1]) = 1
    /\ atomic_contacts[1][1] # <<>>
    /\ Name1(atomic_contacts[1][1]) = <<"N", "E", "2">>
    /\ Name2(atomic_contacts[1][1]) = <<"C", "L">>
    /\ contact_counts[1]["NX"] = 1

RECURSIVE SumOver(_, _)
SumOver(f, keys) ==
    IF keys = {} THEN 0
    ELSE LET k == CHOOSE x \in keys : TRUE IN f[k] + SumOver(f, keys \ {k})

\* C5: the call never raises; the histogram has exactly the ten keys, each a
\* natural number; the counts sum to the number of contacts whose two atoms both
\* classify into C, N, O or X (empty lines are no contacts).
C5_HistogramTotal ==
    (pc = "ready" /\ err # "idle") =>
        /\ err = "none"
        /\ contact_counts # None
        /\ DOMAIN contact_counts[1] = categories
        /\ \A key \in categories : contact_counts[1][key] \in Nat
        /\ SumOver(contact_counts[1], categories) =
              Cardinality({k \in 1..Len(atomic_contacts[1]) :
                  /\ atomic_contacts[1][k] # <<>>
                  /\ _classify_atom(Name1(atomic_contacts[1][k])) \in {"C", "N", "O", "X"}
                  /\ _classify_atom(Name2(atomic_contacts[1][k])) \in {"C", "N", "O", "X"}})

\* two lines, one of them empty: one contact counted
C5_Witness ==
    /\ pc = "ready" /\ err = "none" /\ contact_counts # None
    /\ Len(atomic_contacts[1]) = 2
    /\ atomic_contacts[1][1] = <<>>
    /\ atomic_contacts[1][2] # <<>>
    /\ SumOver(contact_counts[1], categories) = 1
    /\ contact_counts[1]["CX"] = 1

\* ---------------------------------------------- specification: the session

SessionAtom(chain, name, z) ==
    [record |-> "ATOM", chain |-> chain, resid |-> <<"1">>, name |-> name,
     resname |-> <<"A", "L", "A">>, x |-> 0, y |-> 0, z |-> z]

\* atoms of every category: those of chain A at the origin, those of chain B at
\* exactly the cutoff from it; one atom of chain B just beyond the cutoff, and one
\* of a chain in neither group
SessionNames == {<<"C", "A">>, <<"N">>, <<"C", "L", "1">>, <<"O", "X", "T">>}
SessionAtoms ==
    {SessionAtom("A", n, 0) : n \in SessionNames}
    \cup {SessionAtom("B", n, default_cutoff) : n \in SessionNames}
    \cup {SessionAtom("B", <<"C", "A">>, default_cutoff + 1),
          SessionAtom("C", <<"C", "A">>, 0)}

SessionStructures(atoms) == UNION {[1..n -> SessionAtoms] : n \in 0..atoms}

\* A constructed session.  With the external strategy the structure plays no part
\* in what the program answers, so those sessions hold the empty structure.
Init ==
    /\ pc = "ready"
    /\ raw_chains = << <<"A">>, <<"B">> >>
    /\ chains = Some(_parse_chains(raw_chains).value)
    /\ cpp_contacts \in {None, Some([type |-> "list", val |-> <<ExecutablePath>>])}
    /\ structure \in IF cpp_contacts = None THEN SessionStructures(MaxSessionAtoms) ELSE {<<>>}
    /\ electrostatics \in {None, Some(0), Some(-50)}
    /\ cutoff = default_cutoff
    /\ dg_score = None
    /\ dg_elec = None
    /\ dg = None
    /\ contact_counts = None
    /\ atomic_contacts = None
    /\ err = "idle"
    /\ proc = NoProc

Next == predict

Spec == Init /\ [][Next]_vars

Outputs == <<contact_counts, dg, dg_score, dg_elec>>
AllUnset == contact_counts = None /\ dg = None /\ dg_score = None /\ dg_elec = None

\* C6: a predict() whose contact detection yields an empty list ends with the
\* no-contacts error and leaves contact_counts, dg, dg_score and dg_elec as they
\* were, so unset on a session that had none; this covers a group without atoms.
C6_NoContactsNeverScored ==
    [][atomic_contacts' = Some(<<>>) =>
          /\ err' = "RuntimeWarning"
          /\ Outputs' = Outputs
          /\ (AllUnset => AllUnset')]_vars

\* in-process: atoms of both groups, none within the cutoff; nothing was computed
C6_Witness ==
    /\ err = "RuntimeWarning"
    /\ atomic_contacts = Some(<<>>)
    /\ cpp_contacts = None
    /\ Len(fill_coordinates(structure, chains[1], <<<<>>, <<>>>>).value[1]) > 0
    /\ Len(fill_coordinates(structure, chains[1], <<<<>>, <<>>>>).value[2]) > 0
    /\ AllUnset

\* C7: after a predict() that returned, dg and contact_counts are set, and
\* dg_score and dg_elec are set exactly when electrostatics is not None (0 is a
\* value); in every state, a score is set only if contact_counts is.
C7_ScoresDefinedIffElectrostatics ==
    /\ err = "none" =>
          /\ dg # None
          /\ contact_counts # None
          /\ (dg_score # None) <=> (electrostatics # None)
          /\ (dg_elec # None) <=> (electrostatics # None)
    /\ (dg # None \/ dg_score # None \/ dg_elec # None) => contact_counts # None

\* a scored session whose electrostatics energy is 0
C7_Witness ==
    /\ err = "none"
    /\ electrostatics = Some(0)
    /\ dg_score # None /\ dg_elec # None /\ dg # None

\* C8: a predict() that raises leaves every field of the session as it was.
C8_FailedPredictLeavesNoState ==
    [][err' \notin {"none", "idle"} =>
          UNCHANGED <<structure, chains, electrostatics, cpp_contacts, cutoff,
                      contact_counts, dg, dg_score, dg_elec>>]_vars

\* C9: the three scores are the stated linear combinations (units of 10^-7) of
\* the stored histogram and the electrostatics energy, and one C-C contact gives
\* the histogram with CC = 1 and every other bucket 0.
C9_ScoresAreTheLinearFormulas ==
    err = "none" =>
        LET h == contact_counts[1]
        IN  /\ dg[1] = 354707 * h["NN"] - 1277895 * h["XX"] - 72166 * h["CN"] - 51923181
            /\ electrostatics # None =>
                  /\ dg_score[1] = 3437940 * electrostatics[1] - 375970 * h["CC"]
                                   + 1387380 * h["NN"] + 1600430 * h["OO"]
                                   - 30888610 * h["XX"] + 1870113840
                  /\ dg_elec[1] = 115148 * electrostatics[1] - 14852 * h["CC"]
                                  + 57097 * h["NN"] - 1301806 * h["XX"] - 51002233
            /\ (/\ Len(atomic_contacts[1]) = 1
                /\ split_ws(atomic_contacts[1][1])[4] = <<"C", "A">>
                /\ split_ws(atomic_contacts[1][1])[8] = <<"C", "A">>) =>
                   h = [k \in categories |-> IF k = "CC" THEN 1 ELSE 0]

\* one C-C contact with an electrostatics energy: all three scores computed
C9_Witness ==
    /\ err = "none"
    /\ electrostatics = Some(-50)
    /\ contact_counts = Some([k \in categories |-> IF k = "CC" THEN 1 ELSE 0])
    /\ dg = Some(-51923181)
    /\ dg_score = Some(1697840870)
    /\ dg_elec = Some(-56774485)

\* the output of a run is malformed: nothing at all, no summary line at the end,
\* or a contact line (any line before the last) with fewer than eight tokens
Malformed(out) ==
    \/ out = <<>>
    \/ out[Len(out)] # LineSummary
    \/ \E k \in 1..(Len(out) - 1) : Len(split_ws(out[k])) < 8

\* C10: when the external program was called and failed (it could not be started,
\* exited non-zero, or wrote malformed output), predict() raised.
C10_ExternalFailurePropagates ==
    (proc.calls = 1 /\ (~proc.spawned \/ proc.exit # 0 \/ Malformed(proc.out))) =>
        err \notin {"none", "idle"}

\* ------------------------- specification: detection with overlapping groups

\* the chain groups of a call: disjoint, identical, and sharing one chain
\* (what _parse_chains returns for "A" "B", "A" "A", "A" "A,B", "A,B" "B")
GroupPairs ==
    { << << <<"A">> >>, << <<"B">> >> >>,
      << << <<"A">> >>, << <<"A">> >> >>,
      << << <<"A">> >>, << <<"A">>, <<"B">> >> >>,
      << << <<"A">>, <<"B">> >>, << <<"B">> >> >> }

InitBuckets ==
    /\ pc = "ready"
    /\ \E g \in GroupPairs :
          /\ chains = Some(g)
          /\ raw_chains = <<join(",", g[1]), join(",", g[2])>>
    /\ structure \in DetectStructures(MaxAtoms, Grid)
    /\ cutoff = MaxCutoff
    /\ electrostatics = None
    /\ cpp_contacts = None
    /\ dg_score = None
    /\ dg_elec = None
    /\ dg = None
    /\ contact_counts = None
    /\ atomic_contacts = None
    /\ err = "idle"
    /\ proc = NoProc

NextBuckets == CallDetect

SpecBuckets == InitBuckets /\ [][NextBuckets]_vars

\* the atom a coordinate line stands for, as the partition of the spec sees it
AtomOfLine(line) ==
    [fullname |-> full_name([resname |-> line.resname, resid |-> line.resid,
                             name |-> line.name, chain |-> line.chain]),
     coords_x |-> line.x, coords_y |-> line.y, coords_z |-> line.z]
\* the atoms of the structure whose chain identifier is in group i, in file order
AtomsOfGroup(i) ==
    LET kept == SelectSeq(structure, LAMBDA line : in_list(<<line.chain>>, chains[1][i]))
    IN  [k \in 1..Len(kept) |-> AtomOfLine(kept[k])]

\* C11: after a successful call, bucket i holds exactly the atoms whose chain
\* identifier is in groups[i], for each of the two groups independently (an atom
\* of a chain in both groups is in both buckets, an atom of a chain in neither is
\* in none), and the result holds every pair (a with chain in groups[0], b with
\* chain in groups[1]) whose distance is within the cutoff.
C11_BucketIffChainInGroup ==
    (pc = "ready" /\ err = "none" /\ atomic_contacts # None) =>
        /\ \A i \in 1..2 : BucketsNow[i] = AtomsOfGroup(i)
        /\ \A a \in 1..Len(AtomsOfGroup(1)) : \A b \in 1..Len(AtomsOfGroup(2)) :
              EuclidWithin(AtomsOfGroup(1)[a], AtomsOfGroup(2)[b], cutoff) =>
                  LinesOfPair(AtomsOfGroup(1)[a], AtomsOfGroup(2)[b]) >= 1

\* a call whose groups share chain A, on a structure holding an atom of chain A
C11_SharedChainCall ==
    /\ pc = "ready" /\ err = "none" /\ atomic_contacts # None
    /\ \E k \in 1..Len(structure) :
          /\ in_list(<<structure[k].chain>>, chains[1][1])
          /\ in_list(<<structure[k].chain>>, chains[1][2])

\* with disjoint groups the buckets are the partition the claim describes
C11_DisjointGroupsPartition ==
    (pc = "ready" /\ err = "none" /\ atomic_contacts # None
        /\ \A c \in ChainIds : ~(in_list(<<c>>, chains[1][1]) /\ in_list(<<c>>, chains[1][2]))) =>
        \A i \in 1..2 : BucketsNow[i] = AtomsOfGroup(i)

\* an atom of a chain in neither group is in no bucket
C11_OutsideChainsDiscarded ==
    (pc = "ready" /\ err = "none" /\ atomic_contacts # None) =>
        \A k \in 1..Len(structure) :
            ~in_list(<<structure[k].chain>>, flatten(chains[1])) =>
                \A i \in 1..2 : ~in_list(AtomOfLine(structure[k]), BucketsNow[i])

====
